---- MODULE Spec2Model ----
(***************************************************************************)
(* A model of the SM3 digest engine, its keyed-MAC and key-derivation      *)
(* constructions (src/sm3.js) and of the counter-based one-time-password   *)
(* verification (src/main.js).                                             *)
(*                                                                         *)
(* Representation.  A JavaScript array is a sequence; the element with     *)
(* JavaScript index i is element i+1 of the sequence.  A byte is a number  *)
(* in 0..255; a hole of an array (an element never written) is Undefined.  *)
(* An unsigned 32-bit word is a pair <<hi, lo>> of 16-bit halves, its      *)
(* value being hi * 2^16 + lo, so that all arithmetic stays exact and is   *)
(* reduced modulo 2^32 exactly where the code reduces it.  A number that a *)
(* bitwise operator left as a signed 32-bit integer is the same pair with  *)
(* hi in -2^15 .. 2^15 - 1, so that its value is still hi * 2^16 + lo.     *)
(* Every array an operator builds is concatenated with the empty sequence, *)
(* which leaves it unchanged and makes it a fully computed sequence.       *)
(***************************************************************************)
EXTENDS Integers, Sequences, FiniteSets, TLC

\* ------------------------------------------------------------------ bounds

\* Total number of bytes a digest context absorbs between init and final.
MaxTotal == 130

\* The largest counter and the largest window a caller of hotp.verifyDelta
\* passes.
MaxCounter == 2

MaxWindow == 2

\* ----------------------------------------------------- words and bit logic

\* The value an array element has before anything is written to it.
Undefined == 0 - 256 * 256 * 256

\* 2^16
Half == 256 * 256

Pow2 == <<1, 2, 4, 8, 16, 32, 64, 128, 256, 512, 1024, 2048, 4096, 8192,
          16384, 32768, 65536>>

\* 2^n for n in 0..16
TwoTo(n) == Pow2[n + 1]

RECURSIVE BitAnd(_, _, _)
\* Bitwise AND of two n-bit numbers.
BitAnd(a, b, n) ==
    IF n = 0 THEN 0
    ELSE (a % 2) * (b % 2) + 2 * BitAnd(a \div 2, b \div 2, n - 1)

\* Bitwise AND of two bytes, tabulated.
AndTab == [a \in 0..255 |-> [b \in 0..255 |-> BitAnd(a, b, 8)]]

And16(a, b) ==
    AndTab[a \div 256][b \div 256] * 256 + AndTab[a % 256][b % 256]

Xor16(a, b) == a + b - 2 * And16(a, b)

Or16(a, b) == a + b - And16(a, b)

\* x & y, x | y, x ^ y on unsigned 32-bit words (the code's ">>> 0" results)
WAnd(x, y) == <<And16(x[1], y[1]), And16(x[2], y[2])>>

WOr(x, y) == <<Or16(x[1], y[1]), Or16(x[2], y[2])>>

WXor(x, y) == <<Xor16(x[1], y[1]), Xor16(x[2], y[2])>>

\* x >>> 0, and the reading of x by any bitwise operator: x modulo 2^32.
Unsigned(x) == <<x[1] % Half, x[2]>>

\* The number a bitwise operator other than >>> returns for the bit pattern
\* x: the signed 32-bit integer, negative when bit 31 is set.
Signed(x) == IF x[1] % Half >= Half \div 2 THEN <<(x[1] % Half) - Half, x[2]>>
             ELSE <<x[1] % Half, x[2]>>

\* (x + y) & 0xffffffff >>> 0
WAdd(x, y) ==
    LET lo == x[2] + y[2]
        hi == x[1] + y[1] + (lo \div Half)
    IN  <<hi % Half, lo % Half>>

\* Rotation of the two halves by n bits, 0 <= n < 16.
RolSmall(hi, lo, n) ==
    IF n = 0 THEN <<hi, lo>>
    ELSE LET k == TwoTo(16 - n)
             m == TwoTo(n)
         IN  <<(hi % k) * m + (lo \div k), (lo % k) * m + (hi \div k)>>

SM3_ROL32(x, n) ==
    IF n < 16 THEN RolSmall(x[1], x[2], n) ELSE RolSmall(x[2], x[1], n - 16)

SM3_P0(x) == WXor(WXor(x, SM3_ROL32(x, 9)), SM3_ROL32(x, 17))

SM3_P1(x) == WXor(WXor(x, SM3_ROL32(x, 15)), SM3_ROL32(x, 23))

SM3_FF00(x, y, z) == WXor(WXor(x, y), z)

SM3_FF16(x, y, z) == WOr(WOr(WAnd(x, y), WAnd(x, z)), WAnd(y, z))

SM3_GG00(x, y, z) == WXor(WXor(x, y), z)

SM3_GG16(x, y, z) == WXor(WAnd(WXor(y, z), x), z)

\* ------------------------------------------------------------ byte arrays

\* data[i] of the code: Undefined beyond the array's length.
At(data, i) == IF i + 1 \in 1..Len(data) THEN data[i + 1] ELSE Undefined

\* ToInt32 of an array element inside a shift or an OR: undefined counts as 0.
ToByte(v) == IF v = Undefined THEN 0 ELSE v

\* The array after data[i] = v; an assignment past the end extends the array
\* and leaves holes in between.
Put(data, i, v) ==
    [k \in 1..(IF i + 1 > Len(data) THEN i + 1 ELSE Len(data)) |->
        IF k = i + 1 THEN v
        ELSE IF k <= Len(data) THEN data[k] ELSE Undefined] \o << >>

\* dst after the loop of sm3_memcpy, for len >= 0.
sm3_memcpy(dst, dst_offset, src, src_offset, len) ==
    [k \in 1..(IF dst_offset + len > Len(dst) THEN dst_offset + len
               ELSE Len(dst)) |->
        IF k - 1 >= dst_offset /\ k - 1 < dst_offset + len
        THEN At(src, src_offset + (k - 1 - dst_offset))
        ELSE IF k <= Len(dst) THEN dst[k] ELSE Undefined] \o << >>

\* dst after the loop of sm3_memset, for len >= 0.
sm3_memset(dst, offset, value, len) ==
    [k \in 1..(IF offset + len > Len(dst) THEN offset + len ELSE Len(dst)) |->
        IF k - 1 >= offset /\ k - 1 < offset + len
        THEN value
        ELSE IF k <= Len(dst) THEN dst[k] ELSE Undefined] \o << >>

SM3_GETU32(data, offset) ==
    << ToByte(At(data, offset)) * 256 + ToByte(At(data, offset + 1)),
       ToByte(At(data, offset + 2)) * 256 + ToByte(At(data, offset + 3)) >>

\* (value & 0xff) >>> 0 and value >>>= 8 read value modulo 2^32.
SM3_PUTU32(data, offset, value) ==
    LET v == Unsigned(value)
    IN  Put(Put(Put(Put(data, offset + 3, v[2] % 256),
                    offset + 2, v[2] \div 256),
                offset + 1, v[1] % 256),
            offset, v[1] \div 256)

SM3_DIGEST_LENGTH == 32

SM3_BLOCK_SIZE == 64

\* new Array(n)
NewArray(n) == [k \in 1..n |-> Undefined] \o << >>

\* ------------------------------------------------------- compression core

K == <<
    <<31180, 17689>>, <<62360, 35378>>, <<59185, 5221>>, <<52834, 10443>>,
    <<40132, 20887>>, <<14728, 41775>>, <<29457, 18014>>, <<58914, 36028>>,
    <<52293, 6521>>, <<39050, 13043>>, <<12564, 26087>>, <<25128, 52174>>,
    <<50257, 38812>>, <<34979, 12089>>, <<4422, 24179>>, <<8844, 48358>>,
    <<40330, 31367>>, <<15124, 62735>>, <<30249, 59934>>, <<60499, 54332>>,
    <<55463, 43129>>, <<45391, 20723>>, <<25246, 41447>>, <<50493, 17358>>,
    <<35450, 34717>>, <<5365, 3899>>, <<10730, 7798>>, <<21460, 15596>>,
    <<42920, 31192>>, <<20304, 62385>>, <<40609, 59234>>, <<15683, 52933>>,
    <<31367, 40330>>, <<62735, 15124>>, <<59934, 30249>>, <<54332, 60499>>,
    <<43129, 55463>>, <<20723, 45391>>, <<41447, 25246>>, <<17358, 50493>>,
    <<34717, 35450>>, <<3899, 5365>>, <<7798, 10730>>, <<15596, 21460>>,
    <<31192, 42920>>, <<62385, 20304>>, <<59234, 40609>>, <<52933, 15683>>,
    <<40330, 31367>>, <<15124, 62735>>, <<30249, 59934>>, <<60499, 54332>>,
    <<55463, 43129>>, <<45391, 20723>>, <<25246, 41447>>, <<50493, 17358>>,
    <<35450, 34717>>, <<5365, 3899>>, <<10730, 7798>>, <<21460, 15596>>,
    <<42920, 31192>>, <<20304, 62385>>, <<40609, 59234>>, <<15683, 52933>> >>

\* W[0..15]: the 16 big-endian words at data[offset ..], W[j] being Load[j+1].
LoadWords(data, offset) ==
    [j \in 1..16 |-> SM3_GETU32(data, offset + (j - 1) * 4)] \o << >>

RECURSIVE Expand(_, _)
\* W[16..67], appended one word at a time; j is the code's index.  (Len(W)
\* is j throughout; reading it makes each word be computed in its turn.)
Expand(W, j) ==
    IF j = 68 \/ Len(W) # j THEN W
    ELSE Expand(
           Append(W,
             WXor(WXor(SM3_P1(WXor(WXor(W[j - 16 + 1], W[j - 9 + 1]),
                                   SM3_ROL32(W[j - 3 + 1], 15))),
                       SM3_ROL32(W[j - 13 + 1], 7)),
                  W[j - 6 + 1])),
           j + 1)

\* One round of either regime; r = <<A, B, C, D, E, F, G, H>>.
Round(r, W, j) ==
    LET A == r[1]
        E == r[5]
        A12 == SM3_ROL32(A, 12)
        SS1 == SM3_ROL32(WAdd(WAdd(A12, E), K[j + 1]), 7)
        SS2 == WXor(SS1, A12)
        Wp  == WXor(W[j + 1], W[j + 4 + 1])
        FF  == IF j < 16 THEN SM3_FF00(A, r[2], r[3])
                         ELSE SM3_FF16(A, r[2], r[3])
        GG  == IF j < 16 THEN SM3_GG00(E, r[6], r[7])
                         ELSE SM3_GG16(E, r[6], r[7])
        TT1 == WAdd(WAdd(WAdd(FF, r[4]), SS2), Wp)
        TT2 == WAdd(WAdd(WAdd(GG, r[8]), SS1), W[j + 1])
    IN  << TT1, A, SM3_ROL32(r[2], 9), r[3],
           SM3_P0(TT2), E, SM3_ROL32(r[6], 19), r[7] >>

RECURSIVE Rounds(_, _, _)
\* The rounds j .. 63 applied to the registers r.  (Len(r) is 8 throughout;
\* reading it makes each round be computed in its turn.)
Rounds(r, W, j) ==
    IF j = 64 \/ Len(r) # 8 THEN r ELSE Rounds(Round(r, W, j), W, j + 1)

\* One iteration of the loop of sm3_compress_blocks: the state after the
\* 64-byte window at data[offset ..] is folded in.  The registers A..H are
\* loaded from the state and enter only rotations, bitwise functions and sums
\* reduced by & 0xffffffff, all of which read them modulo 2^32; after the 64
\* rounds every register holds a value some ">>> 0" produced.  The final
\* state[i] ^= register[i] has no ">>> 0": it stores a signed integer.
CompressWindow(state, data, offset) ==
    LET W == Expand(LoadWords(data, offset), 16)
        s == [i \in 1..8 |-> Unsigned(state[i])] \o << >>
        r == Rounds(s, W, 0)
    IN  [i \in 1..8 |-> Signed(WXor(s[i], r[i]))] \o << >>

\* The 64 bytes the loads of one iteration read.
Window(data, offset) ==
    [k \in 1..64 |-> ToByte(At(data, offset + k - 1))] \o << >>

RECURSIVE sm3_compress_blocks(_, _, _, _)
\* s = [state, folded]: the chaining state and, as a history of the run, the
\* windows folded into it so far.  The loop counts blocks down and reads at
\* offset in every iteration; offset is not changed inside the loop.
sm3_compress_blocks(s, data, offset, blocks) ==
    IF blocks = 0 THEN s
    ELSE sm3_compress_blocks(
             [state  |-> CompressWindow(s.state, data, offset),
              folded |-> Append(s.folded, Window(data, offset))],
             data, offset, blocks - 1)

sm3_compress(s, block) == sm3_compress_blocks(s, block, 0, 1)

\* ---------------------------------------------------------- digest engine

\* A JavaScript number holding a non-negative integer below 2^48 is a triple
\* <<l0, l1, l2>> of 16-bit limbs, its value being l0 + l1 * 2^16 + l2 * 2^32.
BigOf(n) == <<n % Half, n \div Half, 0>>

\* b + k for 0 <= k < 2^16
BigAdd(b, k) ==
    LET s0 == b[1] + k
        s1 == b[2] + (s0 \div Half)
        s2 == b[3] + (s1 \div Half)
    IN  <<s0 % Half, s1 % Half, s2 % Half>>

\* ToUint32 of a number, as a word: the number modulo 2^32.
ToUint32(b) == <<b[2], b[1]>>

IV == << <<29568, 5743>>, <<18708, 45753>>, <<5924, 17111>>, <<55946, 1536>>,
         <<43375, 12476>>, <<5681, 14506>>, <<58253, 61005>>, <<45307, 3662>> >>

\* Sequencing of calls: F applied to the value of v, v being computed once.
Then(v, F(_)) == CHOOSE r \in {F(x) : x \in {v}} : TRUE

\* ctx after sm3_init(ctx).  folded is the history of the windows folded into
\* ctx.state since this init.  life and misused are a history of the calls
\* made on the context: life is "Ready" from an init to the next final and
\* "Finalized" from a final to the next init, and misused is true once an
\* update or a final was called on the context while it was not Ready.
sm3_init(ctx) ==
    [state   |-> IV,
     block   |-> sm3_memset(ctx.block, 0, 0, SM3_BLOCK_SIZE),
     nblocks |-> BigOf(0),
     num     |-> 0,
     folded  |-> << >>,
     life    |-> "Ready",
     misused |-> ctx.misused]

sm3_ctx_new ==
    sm3_init([state   |-> NewArray(8),
              block   |-> NewArray(64),
              nblocks |-> BigOf(0),
              num     |-> 0,
              folded  |-> << >>,
              life    |-> "New",
              misused |-> FALSE])

\* The history of ctx when an update or a final is called on it.
Called(ctx) == [ctx EXCEPT !.misused = @ \/ ctx.life # "Ready"]

\* ctx with the chaining state (and its history) replaced by s.
WithState(ctx, s) == [ctx EXCEPT !.state = s.state, !.folded = s.folded]

ChainOf(ctx) == [state |-> ctx.state, folded |-> ctx.folded]

\* UpdateBlocks with line 100 left out: the remainder is copied from where
\* the whole blocks began.
UpdateBlocks_NoAdvance(ctx, data, data_offset, data_len) ==
    LET blocks == data_len \div SM3_BLOCK_SIZE
        len1 == IF blocks > 0 THEN data_len - SM3_BLOCK_SIZE * blocks
                              ELSE data_len
    IN  Then(IF blocks > 0
             THEN [WithState(ctx, sm3_compress_blocks(ChainOf(ctx), data,
                                                      data_offset, blocks))
                     EXCEPT !.nblocks = BigAdd(ctx.nblocks, blocks)]
             ELSE ctx, LAMBDA c1 :
        IF len1 # 0
        THEN [c1 EXCEPT !.num = len1,
                        !.block = sm3_memcpy(c1.block, 0, data, data_offset,
                                             len1)]
        ELSE [c1 EXCEPT !.num = len1])

\* Lines 96-107 of sm3_update: the whole blocks of data[data_offset ..], then
\* the remainder into ctx.block.
UpdateBlocks(ctx, data, data_offset, data_len) ==
    LET blocks == data_len \div SM3_BLOCK_SIZE
        off1 == IF blocks > 0 THEN data_offset + SM3_BLOCK_SIZE * blocks
                              ELSE data_offset
        len1 == IF blocks > 0 THEN data_len - SM3_BLOCK_SIZE * blocks
                              ELSE data_len
    IN  Then(IF blocks > 0
             THEN [WithState(ctx, sm3_compress_blocks(ChainOf(ctx), data,
                                                      data_offset, blocks))
                     EXCEPT !.nblocks = BigAdd(ctx.nblocks, blocks)]
             ELSE ctx, LAMBDA c1 :
        IF len1 # 0
        THEN [c1 EXCEPT !.num = len1,
                        !.block = sm3_memcpy(c1.block, 0, data, off1, len1)]
        ELSE [c1 EXCEPT !.num = len1])

\* ctx after sm3_update(ctx, data).
sm3_update(ctx, data) ==
    LET data_len == Len(data)
        left == SM3_BLOCK_SIZE - ctx.num
    IN  IF ctx.num # 0
        THEN IF data_len < left
             THEN [Called(ctx) EXCEPT
                      !.block = sm3_memcpy(ctx.block, ctx.num, data, 0, data_len),
                      !.num = ctx.num + data_len]
             ELSE Then(sm3_memcpy(ctx.block, ctx.num, data, 0, left), LAMBDA blk :
                  Then([WithState(Called(ctx),
                                  sm3_compress_blocks(ChainOf(ctx), blk, 0, 1))
                          EXCEPT !.block = blk,
                                 !.nblocks = BigAdd(ctx.nblocks, 1)], LAMBDA c1 :
                      UpdateBlocks(c1, data, left, data_len - left)))
        ELSE UpdateBlocks(Called(ctx), data, 0, data_len)

\* Lines 122-123 of sm3_final: <<hi, lo>>, the two words written at
\* block[56..63].  hi is ToUint32(nblocks) >>> 23; lo is
\* ((ToInt32(nblocks) << 9) + (num << 3)) & 0xffffffff as an unsigned word,
\* which is the sum modulo 2^32.
FinalLength(nblocks, num) ==
    LET u  == ToUint32(nblocks)
        hi == <<0, u[1] \div 128>>
        sh == <<(u[1] % 128) * 512 + (u[2] \div 128), (u[2] % 128) * 512>>
        lo == WAdd(sh, <<0, num * 8>>)
    IN  <<hi, lo>>

\* Lines 122-126 of sm3_final: block after the two words are written at
\* block[56..59] and block[60..63].
FinalBlock(block, nblocks, num) ==
    LET hl == FinalLength(nblocks, num)
    IN  SM3_PUTU32(SM3_PUTU32(block, 56, hl[1]), 60, hl[2])

\* The digest array after the loop of lines 130-132.
PutState(digest, state) ==
    LET RECURSIVE put(_, _)
        put(d, i) == IF i = 8 THEN d
                     ELSE put(SM3_PUTU32(d, i * 4, state[i + 1]), i + 1)
    IN  put(digest, 0)

\* [ctx, digest] after sm3_final(ctx, digest).
sm3_final(ctx, digest) ==
    LET fits == ctx.num + 9 <= SM3_BLOCK_SIZE
    IN  Then(Put(ctx.block, ctx.num, 128), LAMBDA b0 :
        Then(IF fits
             THEN sm3_memset(b0, ctx.num + 1, 0, SM3_BLOCK_SIZE - ctx.num - 9)
             ELSE sm3_memset(b0, ctx.num + 1, 0, SM3_BLOCK_SIZE - ctx.num - 1),
             LAMBDA b1 :
        Then(IF fits THEN ChainOf(ctx) ELSE sm3_compress(ChainOf(ctx), b1),
             LAMBDA s1 :
        Then(IF fits THEN b1 ELSE sm3_memset(b1, 0, 0, SM3_BLOCK_SIZE - 8),
             LAMBDA b2 :
        Then(FinalBlock(b2, ctx.nblocks, ctx.num), LAMBDA b4 :
        Then(sm3_compress(s1, b4), LAMBDA s2 :
            [ctx    |-> [WithState(Called(ctx), s2) EXCEPT !.block = b4,
                                                           !.life = "Finalized"],
             digest |-> PutState(digest, s2.state)]))))))

\* The array sm3(m) returns.
sm3(m) ==
    sm3_final(sm3_update(sm3_init(sm3_ctx_new), m),
              NewArray(SM3_DIGEST_LENGTH)).digest

SM3_HMAC_IPAD == 54

SM3_HMAC_OPAD == 92

\* a ^ b on bytes
Xor8(a, b) == a + b - 2 * AndTab[a][b]

\* key after the loop "key[i] ^= pad" over the 64 bytes of the key block.
XorKey(key, pad) ==
    [i \in 1..SM3_BLOCK_SIZE |-> Xor8(ToByte(key[i]), pad)] \o << >>

\* The reference to a context after "ctx.sm3_ctx = null".
Null == [state |-> << >>, block |-> << >>, nblocks |-> BigOf(0), num |-> 0,
         folded |-> << >>, life |-> "Null", misused |-> FALSE]

sm3_hmac_ctx_new == [sm3_ctx |-> sm3_ctx_new, key |-> NewArray(SM3_BLOCK_SIZE)]

\* Lines 309-318 of sm3_hmac_init: the context with the key block derived
\* from key, before it is masked.
DeriveKey(hctx, key) ==
    LET key_len == Len(key)
    IN  IF key_len <= SM3_BLOCK_SIZE
        THEN [hctx EXCEPT !.key =
                 sm3_memset(sm3_memcpy(hctx.key, 0, key, 0, key_len),
                            key_len, 0, SM3_BLOCK_SIZE - key_len)]
        ELSE Then(sm3_update(sm3_init(hctx.sm3_ctx), key), LAMBDA c :
             Then(sm3_final(c, hctx.key), LAMBDA r :
                 [sm3_ctx |-> r.ctx,
                  key     |-> sm3_memset(r.digest, SM3_DIGEST_LENGTH, 0,
                                         SM3_BLOCK_SIZE - SM3_DIGEST_LENGTH)]))

\* hctx after sm3_hmac_init(hctx, key).
sm3_hmac_init(hctx, key) ==
    Then(DeriveKey(hctx, key), LAMBDA d :
    Then(XorKey(d.key, SM3_HMAC_IPAD), LAMBDA k :
        [sm3_ctx |-> sm3_update(sm3_init(d.sm3_ctx), k),
         key     |-> k]))

\* hctx after sm3_hmac_update(hctx, data).
sm3_hmac_update(hctx, data) ==
    [hctx EXCEPT !.sm3_ctx = sm3_update(hctx.sm3_ctx, data)]

\* sm3_hmac_final with line 346 left out: the outer digest is started on the
\* engine the inner final left.
sm3_hmac_final_NoInit(hctx, mac) ==
    Then(XorKey(hctx.key, Xor8(SM3_HMAC_IPAD, SM3_HMAC_OPAD)), LAMBDA k :
    Then(sm3_final(hctx.sm3_ctx, mac), LAMBDA r1 :
    Then(sm3_update(r1.ctx, k), LAMBDA c1 :
    Then(sm3_update(c1, r1.digest), LAMBDA c2 :
    Then(sm3_final(c2, r1.digest), LAMBDA r2 :
        [hctx |-> [sm3_ctx |-> r2.ctx, key |-> k],
         mac  |-> r2.digest])))))

\* [hctx, mac] after sm3_hmac_final(hctx, mac).
sm3_hmac_final(hctx, mac) ==
    Then(XorKey(hctx.key, Xor8(SM3_HMAC_IPAD, SM3_HMAC_OPAD)), LAMBDA k :
    Then(sm3_final(hctx.sm3_ctx, mac), LAMBDA r1 :
    Then(sm3_update(sm3_init(r1.ctx), k), LAMBDA c1 :
    Then(sm3_update(c1, r1.digest), LAMBDA c2 :
    Then(sm3_final(c2, r1.digest), LAMBDA r2 :
        [hctx |-> [sm3_ctx |-> r2.ctx, key |-> k],
         mac  |-> r2.digest])))))

\* hctx after sm3_hmac_ctx_free(hctx).
sm3_hmac_ctx_free(hctx) ==
    [sm3_ctx |-> Null,
     key     |-> sm3_memset(hctx.key, 0, 0, SM3_BLOCK_SIZE)]

\* ------------------------------------------------- key derivation

\* A requested length klen is held as the integer 2 * klen, so that lengths
\* with a fractional part of one half can be passed.
\* Math.ceil(klen / SM3_DIGEST_LENGTH)
CeilBlocks(klen2) ==
    IF klen2 > 0 THEN (klen2 + 2 * SM3_DIGEST_LENGTH - 1)
                          \div (2 * SM3_DIGEST_LENGTH)
    ELSE 0 - ((0 - klen2) \div (2 * SM3_DIGEST_LENGTH))

\* ToIntegerOrInfinity(klen): klen truncated toward zero.
Truncate(klen2) ==
    IF klen2 >= 0 THEN klen2 \div 2 ELSE 0 - ((0 - klen2) \div 2)

\* key.slice(0, klen)
Slice0(key, klen2) ==
    LET rel == Truncate(klen2)
        fin == IF rel < 0
               THEN (IF Len(key) + rel > 0 THEN Len(key) + rel ELSE 0)
               ELSE (IF rel < Len(key) THEN rel ELSE Len(key))
    IN  SubSeq(key, 1, fin)

\* The locals of sm3_kdf at the loop's first test.
KdfEntry ==
    [key  |-> << >>,
     ct   |-> 1,
     buf  |-> NewArray(4),
     ctx  |-> sm3_ctx_new,
     dgst |-> NewArray(SM3_DIGEST_LENGTH),
     i    |-> 0]

\* The loop's test: i < Math.ceil(klen / SM3_DIGEST_LENGTH)
KdfContinues(loc, klen2) == loc.i < CeilBlocks(klen2)

\* KdfBody with line 372 as "key = dgst.concat(key)".
KdfBody_Prepend(loc, Z) ==
    Then(sm3_update(sm3_init(loc.ctx), Z), LAMBDA c2 :
    Then(SM3_PUTU32(loc.buf, 0, ToUint32(BigOf(loc.ct))), LAMBDA buf :
    Then(sm3_update(c2, buf), LAMBDA c3 :
    Then(sm3_final(c3, loc.dgst), LAMBDA r :
        [key  |-> r.digest \o loc.key,
         ct   |-> loc.ct + 1,
         buf  |-> buf,
         ctx  |-> r.ctx,
         dgst |-> r.digest,
         i    |-> loc.i + 1]))))

\* The locals after one iteration of the loop (lines 367-373 and the i++).
KdfBody(loc, Z) ==
    Then(sm3_update(sm3_init(loc.ctx), Z), LAMBDA c2 :
    Then(SM3_PUTU32(loc.buf, 0, ToUint32(BigOf(loc.ct))), LAMBDA buf :
    Then(sm3_update(c2, buf), LAMBDA c3 :
    Then(sm3_final(c3, loc.dgst), LAMBDA r :
        [key  |-> loc.key \o r.digest,
         ct   |-> loc.ct + 1,
         buf  |-> buf,
         ctx  |-> r.ctx,
         dgst |-> r.digest,
         i    |-> loc.i + 1]))))

\* ------------------------------------------------- the helpers' loops
\* sm3_memcpy, sm3_memset and sm3_compress_blocks loop "while (n--)": the
\* count is tested, then decremented, and the loop ends when the test finds 0.
\* A call of one of them is [fn, len], len being the count it is entered
\* with; the operators below give the calls an operation makes, in order.

Loop(fn, len) == [fn |-> fn, len |-> len]

\* Lines 96-107 of sm3_update, data_len being what lines 81-94 left of it.
UpdateTailLoops(data_len) ==
    LET blocks == data_len \div SM3_BLOCK_SIZE
        len1 == IF blocks > 0 THEN data_len - SM3_BLOCK_SIZE * blocks
                              ELSE data_len
    IN  (IF blocks > 0 THEN <<Loop("sm3_compress_blocks", blocks)>> ELSE << >>)
        \o (IF len1 # 0 THEN <<Loop("sm3_memcpy", len1)>> ELSE << >>)

\* sm3_update on a context with ctx.num = num and data of data_len bytes.
UpdateLoops(num, data_len) ==
    LET left == SM3_BLOCK_SIZE - num
    IN  IF num # 0
        THEN IF data_len < left
             THEN <<Loop("sm3_memcpy", data_len)>>
             ELSE <<Loop("sm3_memcpy", left), Loop("sm3_compress_blocks", 1)>>
                  \o UpdateTailLoops(data_len - left)
        ELSE UpdateTailLoops(data_len)

\* ctx.num after that call: lines 85 and 104.
UpdateNum(num, data_len) ==
    LET left == SM3_BLOCK_SIZE - num
        len0 == IF num # 0 THEN data_len - left ELSE data_len
        blocks == len0 \div SM3_BLOCK_SIZE
    IN  IF num # 0 /\ data_len < left THEN num + data_len
        ELSE IF blocks > 0 THEN len0 - SM3_BLOCK_SIZE * blocks ELSE len0

\* FinalLoops with the test of line 114 left out: the padding is always laid
\* out as if the length field fitted in the block.
FinalLoops_OneBranch(num) ==
    <<Loop("sm3_memset", SM3_BLOCK_SIZE - num - 9),
      Loop("sm3_compress_blocks", 1)>>

\* sm3_final on a context with ctx.num = num: lines 114-120 and 128.
FinalLoops(num) ==
    IF num + 9 <= SM3_BLOCK_SIZE
    THEN <<Loop("sm3_memset", SM3_BLOCK_SIZE - num - 9),
           Loop("sm3_compress_blocks", 1)>>
    ELSE <<Loop("sm3_memset", SM3_BLOCK_SIZE - num - 1),
           Loop("sm3_compress_blocks", 1),
           Loop("sm3_memset", SM3_BLOCK_SIZE - 8),
           Loop("sm3_compress_blocks", 1)>>

\* sm3_hmac_init with a key of key_len bytes: lines 309-318, then the update
\* of line 324 on the engine line 323 initialized.
HmacInitLoops(key_len) ==
    (IF key_len <= SM3_BLOCK_SIZE
     THEN <<Loop("sm3_memcpy", key_len),
            Loop("sm3_memset", SM3_BLOCK_SIZE - key_len)>>
     ELSE UpdateLoops(0, key_len) \o FinalLoops(UpdateNum(0, key_len))
          \o <<Loop("sm3_memset", SM3_BLOCK_SIZE - SM3_DIGEST_LENGTH)>>)
    \o UpdateLoops(0, SM3_BLOCK_SIZE)

\* sm3_hmac_final on an engine with ctx.num = num and a mac array of mac_len
\* elements: lines 345-349.  The first final writes mac[0..31], so that mac
\* has at least 32 elements when line 348 passes it to sm3_update.
HmacFinalLoops(num, mac_len) ==
    LET len == IF mac_len < SM3_DIGEST_LENGTH THEN SM3_DIGEST_LENGTH ELSE mac_len
    IN  FinalLoops(num) \o UpdateLoops(0, SM3_BLOCK_SIZE) \o UpdateLoops(0, len)
        \o FinalLoops(UpdateNum(0, len))

\* One iteration of the loop of sm3_kdf on a secret of z_len bytes: lines
\* 367-371.
KdfLoops(z_len) ==
    UpdateLoops(0, z_len) \o UpdateLoops(UpdateNum(0, z_len), 4)
    \o FinalLoops(UpdateNum(UpdateNum(0, z_len), 4))

\* One test of the loop entered with count len: the count after it.  A
\* negative count is decremented without end and never found to be 0; it is
\* kept as it is.
Countdown(len) == IF len > 0 THEN len - 1 ELSE len

\* ------------------------------------------- one-time passcodes (main.js)
\* A string is a sequence of one-character strings.  A number that may be NaN
\* is a record [nan, val].

DigitChars == <<"0", "1", "2", "3", "4", "5", "6", "7", "8", "9">>

DigitOf(c) == CHOOSE d \in 0..9 : DigitChars[d + 1] = c

IsDigit(c) == \E d \in 0..9 : DigitChars[d + 1] = c

NaN == [nan |-> TRUE, val |-> 0]

Num(n) == [nan |-> FALSE, val |-> n]

\* a === b on numbers
StrictEq(a, b) == ~a.nan /\ ~b.nan /\ a.val = b.val

\* n.toString(10) for an integer n >= 0
RECURSIVE ToString10(_)
ToString10(n) ==
    IF n < 10 THEN <<DigitChars[n + 1]>>
    ELSE Append(ToString10(n \div 10), DigitChars[(n % 10) + 1])

\* The value of the longest prefix of digits of str, from acc.
RECURSIVE ParseDigits(_, _)
ParseDigits(str, acc) ==
    IF str = << >> \/ ~IsDigit(Head(str)) THEN acc
    ELSE ParseDigits(Tail(str), acc * 10 + DigitOf(Head(str)))

RECURSIVE TrimStart(_)
TrimStart(str) ==
    IF str # << >> /\ Head(str) = " " THEN TrimStart(Tail(str)) ELSE str

\* parseInt(str, 10) of a string
parseInt(str) ==
    LET t    == TrimStart(str)
        neg  == t # << >> /\ Head(t) = "-"
        body == IF t # << >> /\ Head(t) \in {"-", "+"} THEN Tail(t) ELSE t
    IN  IF body = << >> \/ ~IsDigit(Head(body)) THEN NaN
        ELSE IF neg THEN Num(0 - ParseDigits(body, 0))
        ELSE Num(ParseDigits(body, 0))

\* buf after the loop of lines 42-50 of digest: tmp & 0xff is tmp modulo 256
\* and tmp >> 8 is the floor of tmp / 256, for a 32-bit counter.
CounterBuf(counter) ==
    LET RECURSIVE fill(_, _, _)
        fill(buf, tmp, i) ==
            IF i = 8 THEN buf
            ELSE fill([buf EXCEPT ![8 - i] = tmp % 256], tmp \div 256, i + 1)
    IN  fill([k \in 1..8 |-> 0] \o << >>, counter, 0)

\* crypto.createHmac(algorithm, secret).update(buf).digest(): the platform's
\* keyed hash, a fixed function of the key and of the 8 bytes, 20 bytes
\* long.  secret is a number standing for the key.
PlatformHmac(secret, buf) ==
    LET mix == buf[8] * 7 + buf[7] * 13 + buf[1] * 3 + secret * 11
    IN  [k \in 1..20 |-> (mix * (2 * k + 1) + ((mix + k) * (mix + k)) \div 3
                          + 37 * k) % 256] \o << >>

\* exports.digest(options)
exports_digest(options) == PlatformHmac(options.secret, CounterBuf(options.counter))

\* x || dflt, and parseInt(x, 10) || dflt, for an option that is an integer or left out
IntOr(x, dflt) == IF x = Undefined \/ x = 0 THEN dflt ELSE x

\* exports.hotp(options): the passcode, a string.  options.digits is a
\* positive integer, or Undefined when the caller leaves it out.
hotpGenerate(options) ==
    LET digits == IntOr(options.digits, 6)
        d      == exports_digest(options)
        offset == d[Len(d)] % 16
        code   == (d[offset + 1] % 128) * (256 * Half) + d[offset + 2] * Half
                  + d[offset + 3] * 256 + d[offset + 4]
        padded == [k \in 1..digits |-> "0"] \o ToString10(code)
    IN  SubSeq(padded, Len(padded) - digits + 1, Len(padded))

\* The locals of hotpVerifyDelta after lines 158-161.
VerifyEntry(options) ==
    [token   |-> options.token,
     digits  |-> IntOr(options.digits, 6),
     window  |-> IntOr(options.window, 0),
     counter |-> IntOr(options.counter, 0)]

\* exports._counter(options) for an options.time that is given: the floor of
\* (time * 1000 - epoch) / step / 1000, time, epoch and step being integers
\* with time * 1000 >= epoch.
exports_counter(o) ==
    LET step  == IntOr(o.step, 30)
        time  == o.time * 1000
        epoch == IF o.epoch = Undefined THEN 0 ELSE IntOr(o.epoch * 1000, 0)
    IN  (time - epoch) \div (step * 1000)

\* The counter totpVerifyDelta works with after line 354.
TotpCounter(o) ==
    IF o.counter = Undefined THEN exports_counter(o) ELSE o.counter

\* TotpShadow with line 358 left out.
TotpShadow_OneSided(o) ==
    LET window == IntOr(o.window, 0)
    IN  [o EXCEPT !.counter = TotpCounter(o) - window]

\* The object totpVerifyDelta passes to hotp.verifyDelta: the caller's
\* options seen through the shadow of line 348, with the counter and window
\* written at lines 354-358.  A window left out makes line 358 write NaN,
\* which hotpVerifyDelta reads as 0, as it reads a window left out.
TotpShadow(o) ==
    LET window == IntOr(o.window, 0)
    IN  [o EXCEPT !.counter = TotpCounter(o) - window,
                  !.window  = IF o.window = Undefined THEN Undefined
                              ELSE o.window + window]

\* What totpVerifyDelta returns or throws, from what hotp.verifyDelta
\* returned or threw: lines 361-368.
TotpResult(ret, window) ==
    IF ret.kind = "object" THEN [ret EXCEPT !.delta = ret.delta - window]
    ELSE ret

\* What verify returns or throws, from what verifyDelta returned or threw:
\* lines 216 and 403.
VerifyResult(ret) ==
    IF ret.kind = "error" THEN ret
    ELSE [kind |-> "boolean", value |-> ret.kind = "object"]

\* The test of the loop of line 177, read as "i < counter + window".
LoopTest_Exclusive(loc, i) == i < loc.counter + loc.window

\* The test of the loop of line 177.
LoopTest(loc, i) == i <= loc.counter + loc.window

\* Line 180 for counter i: does the passcode of i equal the parsed token?
Matches(options, i, token) ==
    StrictEq(parseInt(hotpGenerate([options EXCEPT !.counter = i])), token)

\* ---------------------------------------------------------- the state

VARIABLES
    ctx,        \* the digest context
    digest,     \* the caller's output array of sm3_final
    absorbed,   \* the concatenation of the data of every update since init
    seed,       \* selects the message whose chunks the updates pass
    phase,      \* "ready" after sm3_init, "finalized" after sm3_final
    pending,    \* ctx.num and Len(ctx.folded) as sm3_final found them
    cin,        \* the arguments of a call of sm3_compress_blocks
    cout,       \* the chaining state the call left, and the windows it read
    call,       \* the operation in progress and the helper loops left to it
    hpc,        \* the position of a call of sm3_hmac
    hkey,       \* its key
    hdata,      \* its data
    hctx,       \* its keyed-MAC context
    mac,        \* the caller's output array
    kpc,        \* the position of a call of sm3_kdf
    Z,          \* the secret
    klen,       \* twice the requested length
    kloc,       \* the locals of sm3_kdf
    kret,       \* the array the call returned
    kprev,      \* the length and the result of the call before, on the same Z
    vpc,        \* the position of a call of hotpVerifyDelta
    options,    \* the caller's options
    vloc,       \* the locals of hotpVerifyDelta
    vi,         \* the loop variable i of hotpVerifyDelta
    vret,       \* what the call returned or threw
    compared,   \* the counters whose passcode line 180 compared, in order
    entry,      \* the function the caller called
    given,      \* the options object hotpVerifyDelta was called with
    twindow,    \* the local window of totpVerifyDelta
    tret,       \* what totpVerifyDelta returned or threw
    bret        \* what verify returned or threw

coreVars == <<cin, cout, call>>

engineVars == <<ctx, digest, absorbed, seed, phase, pending, coreVars>>

hmacVars == <<hpc, hkey, hdata, hctx, mac>>

kdfVars == <<kpc, Z, klen, kloc, kret, kprev>>

hotpVars ==
    <<vpc, options, vloc, vi, vret, compared, entry, given, twindow, tret, bret>>

vars == <<engineVars, hmacVars, kdfVars, hotpVars>>

NoChain == [state |-> << >>, folded |-> << >>]

\* No operation in progress.
NoCall == [name |-> "none", len |-> 0, loops |-> << >>]

\* No call of sm3_compress_blocks made.
CoreIdle ==
    /\ cin = [state |-> IV, data |-> << >>, offset |-> 0, blocks |-> 0]
    /\ cout = NoChain
    /\ call = NoCall

\* No digest context in use.
EngineIdle ==
    /\ CoreIdle
    /\ ctx = sm3_ctx_new
    /\ digest = << >>
    /\ absorbed = << >>
    /\ seed = 0
    /\ phase = "idle"
    /\ pending = [num |-> 0, folded |-> 0]

\* No call of sm3_hmac made.
HmacIdle ==
    /\ hpc = "idle"
    /\ hkey = << >>
    /\ hdata = << >>
    /\ hctx = sm3_hmac_ctx_new
    /\ mac = << >>

NoResult == [valid |-> FALSE, klen |-> 0, key |-> << >>]

\* No call of sm3_kdf made.
KdfIdle ==
    /\ kpc = "idle"
    /\ Z = << >>
    /\ klen = 0
    /\ kloc = KdfEntry
    /\ kret = << >>
    /\ kprev = NoResult

NoOptions ==
    [secret |-> 0, token |-> << >>, counter |-> 0, window |-> 0, digits |-> 0]

NoReturn == [kind |-> "none", delta |-> 0, message |-> ""]

\* No call of hotpVerifyDelta made.
HotpIdle ==
    /\ vpc = "idle"
    /\ options = NoOptions
    /\ vloc = VerifyEntry(NoOptions)
    /\ vi = 0
    /\ vret = NoReturn
    /\ compared = << >>
    /\ entry = "none"
    /\ given = NoOptions
    /\ twindow = 0
    /\ tret = NoReturn
    /\ bret = NoReturn

\* ------------------------------------------------ the digest engine's runs

\* The messages: byte k (from 0) of message sd is (sd + 3 * k) mod 256.
Seeds == {0, 101}

\* The chunk lengths an update may pass: the empty chunk, short chunks, the
\* lengths around the padding and block boundaries, two blocks and more.
ChunkLens == {0, 1, 8, 55, 56, 63, 64, 65, 119, 120, 128, 129}

\* The len bytes of message sd that start at position start.
Data(sd, start, len) == [k \in 1..len |-> (sd + 3 * (start + k - 1)) % 256] \o << >>

Init ==
    /\ ctx = sm3_ctx_new
    /\ digest = NewArray(SM3_DIGEST_LENGTH)
    /\ absorbed = << >>
    /\ seed \in Seeds
    /\ phase = "ready"
    /\ pending = [num |-> 0, folded |-> 0]
    /\ CoreIdle /\ HmacIdle /\ KdfIdle /\ HotpIdle

\* sm3_init(ctx), on a context in any state; the caller starts a new message
\* and brings a new output array.
DoInit ==
    /\ ctx' = sm3_init(ctx)
    /\ digest' = NewArray(SM3_DIGEST_LENGTH)
    /\ absorbed' = << >>
    /\ seed' \in Seeds
    /\ phase' = "ready"
    /\ pending' = [num |-> 0, folded |-> 0]
    /\ UNCHANGED <<coreVars, hmacVars, kdfVars, hotpVars>>

\* sm3_update(ctx, data) with the next len bytes of the message.
DoUpdate ==
    /\ phase = "ready"
    /\ \E len \in ChunkLens :
          /\ Len(absorbed) + len <= MaxTotal
          /\ LET data == Data(seed, Len(absorbed), len)
             IN  /\ ctx' = sm3_update(ctx, data)
                 /\ absorbed' = absorbed \o data
    /\ UNCHANGED <<digest, seed, phase, pending>>
    /\ UNCHANGED <<coreVars, hmacVars, kdfVars, hotpVars>>

\* sm3_final(ctx, digest)
DoFinal ==
    /\ phase = "ready"
    /\ LET r == sm3_final(ctx, digest)
       IN  /\ ctx' = r.ctx
           /\ digest' = r.digest
    /\ pending' = [num |-> ctx.num, folded |-> Len(ctx.folded)]
    /\ phase' = "finalized"
    /\ UNCHANGED <<absorbed, seed>>
    /\ UNCHANGED <<coreVars, hmacVars, kdfVars, hotpVars>>

Next == DoInit \/ DoUpdate \/ DoFinal

Spec == Init /\ [][Next]_vars

\* ------------------------------------- sm3_final on a long message's context

\* 2^7, 2^15 and 1 as limbs: the block counts are 2^23 - 1, 2^23, 2^31,
\* 2^32 - 1, 2^32, 2^32 + 2^23 and the small ones.
BlockCounts ==
    {BigOf(0), BigOf(1), <<Half - 1, 127, 0>>, <<0, 128, 0>>,
     <<0, Half \div 2, 0>>, <<Half - 1, Half - 1, 0>>, <<0, 0, 1>>,
     <<0, 128, 1>>, <<5, 0, 3>>}

\* A context that has absorbed nblocks whole blocks and num bytes more of a
\* message of zero bytes.  The chaining value after so many blocks is not
\* computed: it is left at its initial value, on which the length field that
\* sm3_final writes does not depend.
InitLen ==
    /\ \E nb \in BlockCounts, p \in 0..(SM3_BLOCK_SIZE - 1) :
          ctx = [sm3_ctx_new EXCEPT !.nblocks = nb, !.num = p]
    /\ digest = NewArray(SM3_DIGEST_LENGTH)
    /\ absorbed = << >>
    /\ seed = 0
    /\ phase = "ready"
    /\ pending = [num |-> 0, folded |-> 0]
    /\ CoreIdle /\ HmacIdle /\ KdfIdle /\ HotpIdle

NextLen == DoFinal

SpecLen == InitLen /\ [][NextLen]_vars

\* ------------------------------------------- sm3_compress_blocks's calls

\* The largest number of blocks a call is asked to fold.
MaxBlocks == 3

\* The chaining states a call starts from: the initial one, and the one
\* left by folding a block into it.
ChainStates == {IV, CompressWindow(IV, Data(7, 0, 64), 0)}

\* The arguments of a call: a buffer, an offset into it and a number of
\* blocks that the buffer holds from that offset on.
CompressCalls ==
    {c \in [state : ChainStates,
            data : {Data(sd, 0, len) : sd \in Seeds, len \in {64, 128, 192, 200}},
            offset : {0, 1, 8, 64},
            blocks : 1..MaxBlocks] :
        c.offset + SM3_BLOCK_SIZE * c.blocks <= Len(c.data)}

InitCompress ==
    /\ cin \in CompressCalls
    /\ cout = NoChain
    /\ call = NoCall
    /\ ctx = sm3_ctx_new
    /\ digest = << >>
    /\ absorbed = << >>
    /\ seed = 0
    /\ phase = "idle"
    /\ pending = [num |-> 0, folded |-> 0]
    /\ HmacIdle /\ KdfIdle /\ HotpIdle

\* sm3_compress_blocks(state, data, offset, blocks)
Compress ==
    /\ cout = NoChain
    /\ cout' = sm3_compress_blocks([state |-> cin.state, folded |-> << >>],
                                   cin.data, cin.offset, cin.blocks)
    /\ UNCHANGED <<cin, call, ctx, digest, absorbed, seed, phase, pending>>
    /\ UNCHANGED <<hmacVars, kdfVars, hotpVars>>

NextCompress == Compress

SpecCompress == InitCompress /\ [][NextCompress]_vars

\* ------------------------------------------------------ sm3_hmac's runs

\* The key lengths: below, at and above the block size, and two blocks and
\* more.
KeyLens == {3, 64, 65, 130}

\* The data lengths: none, short, one block, two blocks.
DataLens == {0, 3, 64, 128}

\* The lengths of the array the caller passes to receive the MAC.
MacLens == {0, 32, 64}

\* The key of length len: byte k (from 0) is (7 * k + len) mod 256.
KeyBytes(len) == [k \in 1..len |-> (7 * (k - 1) + len) % 256] \o << >>

InitHmac ==
    /\ EngineIdle /\ HmacIdle /\ KdfIdle /\ HotpIdle

\* sm3_hmac(data, key, mac) is entered: line 353.  A run that calls sm3_hmac
\* calls neither sm3 nor sm3_kdf.
HmacCall ==
    /\ hpc \in {"idle", "freed"}
    /\ phase = "idle"
    /\ kpc = "idle"
    /\ \E kl \in KeyLens, dl \in DataLens, ml \in MacLens :
          /\ hkey' = KeyBytes(kl)
          /\ hdata' = Data(kl, 0, dl)
          /\ mac' = NewArray(ml)
    /\ hctx' = sm3_hmac_ctx_new
    /\ hpc' = "new"
    /\ UNCHANGED <<engineVars, kdfVars, hotpVars>>

\* Line 354.
HmacInit ==
    /\ hpc = "new"
    /\ hctx' = sm3_hmac_init(hctx, hkey)
    /\ hpc' = "keyed"
    /\ UNCHANGED <<hkey, hdata, mac, engineVars, kdfVars, hotpVars>>

\* Line 355.
HmacUpdate ==
    /\ hpc = "keyed"
    /\ hctx' = sm3_hmac_update(hctx, hdata)
    /\ hpc' = "updated"
    /\ UNCHANGED <<hkey, hdata, mac, engineVars, kdfVars, hotpVars>>

\* Line 356.
HmacFinal ==
    /\ hpc = "updated"
    /\ LET r == sm3_hmac_final(hctx, mac)
       IN  /\ hctx' = r.hctx
           /\ mac' = r.mac
    /\ hpc' = "final"
    /\ UNCHANGED <<hkey, hdata, engineVars, kdfVars, hotpVars>>

\* Line 357; sm3_hmac returns.
HmacFree ==
    /\ hpc = "final"
    /\ hctx' = sm3_hmac_ctx_free(hctx)
    /\ hpc' = "freed"
    /\ UNCHANGED <<hkey, hdata, mac, engineVars, kdfVars, hotpVars>>

NextHmac == HmacCall \/ HmacInit \/ HmacUpdate \/ HmacFinal \/ HmacFree

SpecHmac == InitHmac /\ [][NextHmac]_vars

\* ------------------------------------------------------- sm3_kdf's runs

\* The lengths of the secrets: short, 124 bytes (a block with the counter
\* field filling the next), two blocks.
SecretLens == {3, 124, 128}

\* Twice the requested lengths: -1, 0, 1, 32, 33, 33.5, 64 and 65 bytes.
Klens == {0 - 2, 0, 2, 64, 66, 67, 128, 130}

InitKdf ==
    /\ kpc = "idle"
    /\ \E zl \in SecretLens : Z = Data(zl, 0, zl)
    /\ klen = 0
    /\ kloc = KdfEntry
    /\ kret = << >>
    /\ kprev = NoResult
    /\ EngineIdle /\ HmacIdle /\ HotpIdle

\* sm3_kdf(Z, klen) is entered: lines 361-365 and the loop's "var i = 0".
\* The result of the call before is kept for comparison.  A run that calls
\* sm3_kdf calls neither sm3 nor sm3_hmac.
KdfCall ==
    /\ kpc \in {"idle", "returned"}
    /\ phase = "idle"
    /\ hpc = "idle"
    /\ klen' \in Klens
    /\ kloc' = KdfEntry
    /\ kprev' = IF kpc = "returned"
                THEN [valid |-> TRUE, klen |-> klen, key |-> kret]
                ELSE NoResult
    /\ kret' = << >>
    /\ kpc' = "loop"
    /\ UNCHANGED <<Z, engineVars, hmacVars, hotpVars>>

\* One iteration of the loop.
KdfIter ==
    /\ kpc = "loop"
    /\ KdfContinues(kloc, klen)
    /\ kloc' = KdfBody(kloc, Z)
    /\ UNCHANGED <<kpc, Z, klen, kret, kprev, engineVars, hmacVars, hotpVars>>

\* The loop ends; line 375.
KdfReturn ==
    /\ kpc = "loop"
    /\ ~KdfContinues(kloc, klen)
    /\ kret' = Slice0(kloc.key, klen)
    /\ kpc' = "returned"
    /\ UNCHANGED <<Z, klen, kloc, kprev, engineVars, hmacVars, hotpVars>>

NextKdf == KdfCall \/ KdfIter \/ KdfReturn

SpecKdf == InitKdf /\ [][NextKdf]_vars

\* ------------------------------ the constructs over the engine, one per run

\* The lengths of the messages passed to the one-shot sm3: empty, short, around
\* the padding boundary, one block and more, two blocks.
MessageLens == {0, 3, 55, 56, 64, 65, 128}

\* Nothing called yet; the secret is the one a later sm3_kdf is called with.
InitConstructs == InitKdf

\* sm3(m) is entered, in a run that calls neither sm3_hmac nor sm3_kdf:
\* lines 275-277, the new output array, the new context and its init.
Sm3Call ==
    /\ phase \in {"idle", "returned"}
    /\ hpc = "idle"
    /\ kpc = "idle"
    /\ \E sd \in Seeds, len \in MessageLens :
          /\ seed' = sd
          /\ absorbed' = Data(sd, 0, len)
    /\ digest' = NewArray(SM3_DIGEST_LENGTH)
    /\ ctx' = sm3_init(sm3_ctx_new)
    /\ phase' = "entered"
    /\ UNCHANGED <<pending, coreVars, hmacVars, kdfVars, hotpVars>>

\* Line 278.
Sm3Update ==
    /\ phase = "entered"
    /\ ctx' = sm3_update(ctx, absorbed)
    /\ phase' = "absorbed"
    /\ UNCHANGED <<digest, absorbed, seed, pending>>
    /\ UNCHANGED <<coreVars, hmacVars, kdfVars, hotpVars>>

\* Line 279; sm3 returns.
Sm3Final ==
    /\ phase = "absorbed"
    /\ LET r == sm3_final(ctx, digest)
       IN  /\ ctx' = r.ctx
           /\ digest' = r.digest
    /\ phase' = "returned"
    /\ UNCHANGED <<absorbed, seed, pending>>
    /\ UNCHANGED <<coreVars, hmacVars, kdfVars, hotpVars>>

NextConstructs == Sm3Call \/ Sm3Update \/ Sm3Final \/ NextHmac \/ NextKdf

SpecConstructs == InitConstructs /\ [][NextConstructs]_vars

\* ------------------------------------- the operations, loop test by loop test
\* An operation is entered, its helper loops run one test at a time, and it
\* returns when the last of them has ended.  The loops with a constant bound
\* (the 64 bytes of a key block, the 8 words of a digest, the rounds) are
\* not stepped.

\* The chunk lengths: nothing, up to the padding boundary, a block, more.
TermChunks == {0, 56, 64, 72}

\* Twice the lengths asked of sm3_kdf: 0, 1 and 33 bytes.
TermKlens == {0, 2, 66}

\* The secrets' lengths.
TermSecretLens == {3, 124}

InitTerm == InitHmac

Running == call.name # "none"

Entered(name, len, loops) ==
    call' = [name |-> name, len |-> len, loops |-> loops]

\* The caller starts on a digest context: sm3_ctx_new or sm3_init.
TermInitCall ==
    /\ ~Running
    /\ hpc = "idle"
    /\ kpc = "idle"
    /\ phase \in {"idle", "finalized"}
    /\ ctx' = sm3_init(ctx)
    /\ digest' = NewArray(SM3_DIGEST_LENGTH)
    /\ absorbed' = << >>
    /\ phase' = "ready"
    /\ UNCHANGED <<seed, pending, coreVars, hmacVars, kdfVars, hotpVars>>

\* sm3_update(ctx, data) is entered.
BeginUpdate ==
    /\ ~Running
    /\ phase = "ready"
    /\ \E len \in TermChunks :
          /\ Len(absorbed) + len <= MaxTotal
          /\ Entered("sm3_update", len, UpdateLoops(ctx.num, len))
    /\ UNCHANGED <<cin, cout, ctx, digest, absorbed, seed, phase, pending>>
    /\ UNCHANGED <<hmacVars, kdfVars, hotpVars>>

\* sm3_final(ctx, digest) is entered.
BeginFinal ==
    /\ ~Running
    /\ phase = "ready"
    /\ Entered("sm3_final", 0, FinalLoops(ctx.num))
    /\ UNCHANGED <<cin, cout, ctx, digest, absorbed, seed, phase, pending>>
    /\ UNCHANGED <<hmacVars, kdfVars, hotpVars>>

\* sm3_hmac's caller: a key of any of the lengths, data short or of a block,
\* an empty array or one of 64 elements for the MAC.
TermHmacCall ==
    /\ ~Running
    /\ hpc \in {"idle", "freed"}
    /\ phase = "idle"
    /\ kpc = "idle"
    /\ \E kl \in KeyLens, dl \in {3, SM3_BLOCK_SIZE}, ml \in {0, SM3_BLOCK_SIZE} :
          /\ hkey' = KeyBytes(kl)
          /\ hdata' = Data(kl, 0, dl)
          /\ mac' = NewArray(ml)
    /\ hctx' = sm3_hmac_ctx_new
    /\ hpc' = "new"
    /\ UNCHANGED <<engineVars, kdfVars, hotpVars>>

\* sm3_hmac_init(ctx, key) is entered.
BeginHmacInit ==
    /\ ~Running
    /\ hpc = "new"
    /\ Entered("sm3_hmac_init", 0, HmacInitLoops(Len(hkey)))
    /\ UNCHANGED <<cin, cout, ctx, digest, absorbed, seed, phase, pending>>
    /\ UNCHANGED <<hmacVars, kdfVars, hotpVars>>

\* sm3_hmac_update(ctx, data) is entered.
BeginHmacUpdate ==
    /\ ~Running
    /\ hpc = "keyed"
    /\ Entered("sm3_hmac_update", 0, UpdateLoops(hctx.sm3_ctx.num, Len(hdata)))
    /\ UNCHANGED <<cin, cout, ctx, digest, absorbed, seed, phase, pending>>
    /\ UNCHANGED <<hmacVars, kdfVars, hotpVars>>

\* sm3_hmac_final(ctx, mac) is entered.
BeginHmacFinal ==
    /\ ~Running
    /\ hpc = "updated"
    /\ Entered("sm3_hmac_final", 0, HmacFinalLoops(hctx.sm3_ctx.num, Len(mac)))
    /\ UNCHANGED <<cin, cout, ctx, digest, absorbed, seed, phase, pending>>
    /\ UNCHANGED <<hmacVars, kdfVars, hotpVars>>

\* sm3_kdf(Z, klen) is entered with a length that is a non-negative integer.
TermKdfCall ==
    /\ ~Running
    /\ kpc \in {"idle", "returned"}
    /\ phase = "idle"
    /\ hpc = "idle"
    /\ \E zl \in TermSecretLens : Z' = Data(zl, 0, zl)
    /\ klen' \in TermKlens
    /\ kloc' = KdfEntry
    /\ kprev' = NoResult
    /\ kret' = << >>
    /\ kpc' = "loop"
    /\ UNCHANGED <<engineVars, hmacVars, hotpVars>>

\* The loop's test succeeds: an iteration of sm3_kdf is entered.
BeginKdfIter ==
    /\ ~Running
    /\ kpc = "loop"
    /\ KdfContinues(kloc, klen)
    /\ Entered("sm3_kdf", 0, KdfLoops(Len(Z)))
    /\ UNCHANGED <<cin, cout, ctx, digest, absorbed, seed, phase, pending>>
    /\ UNCHANGED <<hmacVars, kdfVars, hotpVars>>

\* The loop's test fails: line 375.
TermKdfReturn ==
    /\ ~Running
    /\ KdfReturn

\* The call in progress after one test of the helper loop it is in.
AfterTest(c) ==
    LET h == Head(c.loops)
    IN  [c EXCEPT !.loops =
            IF h.len = 0 THEN Tail(c.loops)
            ELSE <<Loop(h.fn, Countdown(h.len))>> \o Tail(c.loops)]

\* One test of the helper loop the operation is in: the loop ends if its
\* count is 0 and goes round once more if it is not.
LoopStep ==
    /\ Running
    /\ call.loops # << >>
    /\ call' = AfterTest(call)
    /\ UNCHANGED <<cin, cout, ctx, digest, absorbed, seed, phase, pending>>
    /\ UNCHANGED <<hmacVars, kdfVars, hotpVars>>

\* The operation has run its last helper loop.
Returning(name) ==
    /\ call.name = name
    /\ call.loops = << >>
    /\ call' = NoCall

EndUpdate ==
    /\ Returning("sm3_update")
    /\ LET data == Data(seed, Len(absorbed), call.len)
       IN  /\ ctx' = sm3_update(ctx, data)
           /\ absorbed' = absorbed \o data
    /\ UNCHANGED <<cin, cout, digest, seed, phase, pending>>
    /\ UNCHANGED <<hmacVars, kdfVars, hotpVars>>

EndFinal ==
    /\ Returning("sm3_final")
    /\ LET r == sm3_final(ctx, digest)
       IN  /\ ctx' = r.ctx
           /\ digest' = r.digest
    /\ pending' = [num |-> ctx.num, folded |-> Len(ctx.folded)]
    /\ phase' = "finalized"
    /\ UNCHANGED <<cin, cout, absorbed, seed>>
    /\ UNCHANGED <<hmacVars, kdfVars, hotpVars>>

EndHmacInit ==
    /\ Returning("sm3_hmac_init")
    /\ hctx' = sm3_hmac_init(hctx, hkey)
    /\ hpc' = "keyed"
    /\ UNCHANGED <<hkey, hdata, mac, kdfVars, hotpVars>>
    /\ UNCHANGED <<cin, cout, ctx, digest, absorbed, seed, phase, pending>>

EndHmacUpdate ==
    /\ Returning("sm3_hmac_update")
    /\ hctx' = sm3_hmac_update(hctx, hdata)
    /\ hpc' = "updated"
    /\ UNCHANGED <<hkey, hdata, mac, kdfVars, hotpVars>>
    /\ UNCHANGED <<cin, cout, ctx, digest, absorbed, seed, phase, pending>>

\* sm3_hmac_final returns, and sm3_hmac frees the context and returns.
EndHmacFinal ==
    /\ Returning("sm3_hmac_final")
    /\ LET r == sm3_hmac_final(hctx, mac)
       IN  /\ hctx' = sm3_hmac_ctx_free(r.hctx)
           /\ mac' = r.mac
    /\ hpc' = "freed"
    /\ UNCHANGED <<hkey, hdata, kdfVars, hotpVars>>
    /\ UNCHANGED <<cin, cout, ctx, digest, absorbed, seed, phase, pending>>

EndKdfIter ==
    /\ Returning("sm3_kdf")
    /\ kloc' = KdfBody(kloc, Z)
    /\ UNCHANGED <<kpc, Z, klen, kret, kprev, hmacVars, hotpVars>>
    /\ UNCHANGED <<cin, cout, ctx, digest, absorbed, seed, phase, pending>>

NextTerm ==
    \/ TermInitCall \/ BeginUpdate \/ BeginFinal
    \/ TermHmacCall \/ BeginHmacInit \/ BeginHmacUpdate \/ BeginHmacFinal
    \/ TermKdfCall \/ BeginKdfIter \/ TermKdfReturn
    \/ LoopStep
    \/ EndUpdate \/ EndFinal
    \/ EndHmacInit \/ EndHmacUpdate \/ EndHmacFinal
    \/ EndKdfIter

\* What LoopStep and the returns do to the call in progress.
Advance ==
    /\ Running
    /\ call' = IF call.loops = << >> THEN NoCall ELSE AfterTest(call)

\* The program runs on: an operation in progress takes its next loop test, or
\* returns after the last, and sm3_kdf takes the next test of its own loop.
SpecTerm ==
    /\ InitTerm
    /\ [][NextTerm]_vars
    /\ WF_call(Advance)
    /\ WF_vars(BeginKdfIter \/ TermKdfReturn)

\* ----------------------------------------------- hotp.verifyDelta's runs

Secrets == {1, 2}

\* The passcode lengths a caller asks for: left out (6 digits) or 1 digit.
DigitsChoices == {Undefined, 1}

\* The tokens a caller passes with these options: the passcodes of the
\* counters from one below the window to one above it, a token that is no
\* number, a token one character too long, and a token of digits followed by
\* a letter.
Tokens(o) ==
    LET d == IntOr(o.digits, 6)
    IN  {hotpGenerate([o EXCEPT !.counter = c]) :
             c \in (o.counter - 1)..(o.counter + IntOr(o.window, 0) + 1)}
        \cup {[k \in 1..d |-> "x"], [k \in 1..(d + 1) |-> "1"],
              [k \in 1..d |-> IF k = d THEN "x" ELSE "1"]}

InitHotp ==
    /\ EngineIdle /\ HmacIdle /\ KdfIdle /\ HotpIdle

\* The call throws: the function is left with an Error.
Throw(message) ==
    /\ vret' = [kind |-> "error", delta |-> 0, message |-> message]
    /\ vpc' = "threw"
    /\ UNCHANGED vi

\* hotpVerifyDelta(o) is entered: lines 152-177, up to the loop's first test.
Enter(o) ==
    /\ given' = o
    /\ vloc' = VerifyEntry(o)
    /\ compared' = << >>
    /\ IF Len(vloc'.token) # vloc'.digits
       THEN Throw("Wrong toke length")
       ELSE IF parseInt(vloc'.token).nan
       THEN Throw("Token is not a number")
       ELSE /\ vi' = vloc'.counter
            /\ vpc' = "loop"
            /\ vret' = NoReturn

\* The caller calls hotp.verifyDelta(options), or hotp.verify(options), which
\* calls it at line 216.  The functions keep no state from call to call: a
\* run is one call.
VerifyCall ==
    /\ entry = "none"
    /\ entry' \in {"hotp.verifyDelta", "hotp.verify"}
    /\ \E s \in Secrets, c \in 0..MaxCounter,
          w \in {Undefined} \cup 0..MaxWindow, d \in DigitsChoices :
          LET o == [secret |-> s, token |-> << >>, counter |-> c,
                    window |-> w, digits |-> d]
          IN  \E t \in Tokens(o) : options' = [o EXCEPT !.token = t]
    /\ Enter(options')
    /\ twindow' = 0
    /\ tret' = NoReturn
    /\ bret' = NoReturn
    /\ UNCHANGED <<engineVars, hmacVars, kdfVars>>

\* The loop's test and, when it passes, its body for counter vi.
VerifyStep ==
    /\ vpc = "loop"
    /\ IF LoopTest(vloc, vi)
       THEN /\ compared' = Append(compared, vi)
            /\ IF Matches(given, vi, parseInt(vloc.token))
               THEN /\ vret' = [kind |-> "object", delta |-> vi - vloc.counter,
                                message |-> ""]
                    /\ vpc' = "returned"
                    /\ UNCHANGED vi
               ELSE /\ vi' = vi + 1
                    /\ UNCHANGED <<vpc, vret>>
       ELSE /\ vret' = [kind |-> "undefined", delta |-> 0, message |-> ""]
            /\ vpc' = "returned"
            /\ UNCHANGED <<vi, compared>>
    /\ UNCHANGED <<options, vloc, entry, given, twindow, tret, bret>>
    /\ UNCHANGED <<engineVars, hmacVars, kdfVars>>

\* hotp.verify returns, or is left by the Error: line 216.
VerifyReturn ==
    /\ entry = "hotp.verify"
    /\ vpc \in {"returned", "threw"}
    /\ bret = NoReturn
    /\ bret' = VerifyResult(vret)
    /\ UNCHANGED <<vpc, options, vloc, vi, vret, compared, entry, given,
                   twindow, tret>>
    /\ UNCHANGED <<engineVars, hmacVars, kdfVars>>

NextHotp == VerifyCall \/ VerifyStep \/ VerifyReturn

SpecHotp == InitHotp /\ [][NextHotp]_vars

\* ------------------------------------- totp.verifyDelta's and verify's runs

\* The largest time a caller passes, in steps of 30 seconds.
MaxTimeSteps == 2

\* The ways a caller of totp.verifyDelta fixes the counter: a counter, or a
\* time within its step, ending it or beginning the next, with the epoch
\* left out or set to 30 seconds, from which the counter is derived.
Clocks ==
    {[counter |-> c, time |-> Undefined, epoch |-> Undefined, step |-> Undefined] :
         c \in {0, MaxCounter}}
    \cup {[counter |-> Undefined, time |-> 30 * k + r, epoch |-> e, step |-> st] :
              k \in 1..MaxTimeSteps, r \in {0, 29}, e \in {Undefined, 30},
              st \in {Undefined, 30}}

\* The tokens a caller of totp.verifyDelta passes: as Tokens, for the window
\* on both sides of the counter.
TotpTokens(o) == Tokens(TotpShadow(o))

\* The caller calls totp.verifyDelta(options), or totp.verify(options), which
\* calls it at line 403: lines 346-361, and hotp.verifyDelta up to its loop's
\* first test.
TotpCall ==
    /\ entry = "none"
    /\ entry' \in {"totp.verifyDelta", "totp.verify"}
    /\ \E s \in Secrets, k \in Clocks,
          w \in {Undefined} \cup 0..MaxWindow, d \in DigitsChoices :
          LET o == [secret |-> s, token |-> << >>, counter |-> k.counter,
                    window |-> w, digits |-> d, time |-> k.time,
                    epoch |-> k.epoch, step |-> k.step]
          IN  \E t \in TotpTokens(o) : options' = [o EXCEPT !.token = t]
    /\ twindow' = IntOr(options'.window, 0)
    /\ Enter(TotpShadow(options'))
    /\ tret' = NoReturn
    /\ bret' = NoReturn
    /\ UNCHANGED <<engineVars, hmacVars, kdfVars>>

\* hotp.verifyDelta has returned or thrown; totpVerifyDelta returns or is left
\* by the Error: lines 361-368.
TotpReturn ==
    /\ entry \in {"totp.verifyDelta", "totp.verify"}
    /\ vpc \in {"returned", "threw"}
    /\ tret = NoReturn
    /\ tret' = TotpResult(vret, twindow)
    /\ UNCHANGED <<vpc, options, vloc, vi, vret, compared, entry, given,
                   twindow, bret>>
    /\ UNCHANGED <<engineVars, hmacVars, kdfVars>>

\* totp.verify returns, or is left by the Error: line 403.
TotpVerifyReturn ==
    /\ entry = "totp.verify"
    /\ tret # NoReturn
    /\ bret = NoReturn
    /\ bret' = VerifyResult(tret)
    /\ UNCHANGED <<vpc, options, vloc, vi, vret, compared, entry, given,
                   twindow, tret>>
    /\ UNCHANGED <<engineVars, hmacVars, kdfVars>>

NextOtp ==
    \/ VerifyCall \/ VerifyStep \/ VerifyReturn
    \/ TotpCall \/ TotpReturn \/ TotpVerifyReturn

SpecOtp == InitHotp /\ [][NextOtp]_vars

\* ------------------------------------------------- claims on the engine

\* The reference construction: the padded message of m (m, one 0x80 byte, the
\* fewest zero bytes, the bit length 8 * Len(m) as 8 big-endian bytes), for
\* Len(m) < 2^28.
Zeros(n) == [k \in 1..n |-> 0] \o << >>

BitLength8(n) ==
    LET bits == 8 * n
    IN  <<0, 0, 0, 0, bits \div 16777216, (bits \div 65536) % 256,
          (bits \div 256) % 256, bits % 256>>

Padded(m) ==
    m \o <<128>> \o Zeros((64 - ((Len(m) + 9) % 64)) % 64) \o BitLength8(Len(m))

RECURSIVE Flatten(_)
\* The concatenation of a sequence of windows.
Flatten(ws) == IF ws = << >> THEN << >> ELSE Head(ws) \o Flatten(Tail(ws))

\* C1 (as claimed): whatever the chunks the message was passed in, the digest
\* sm3_final leaves is the digest the one-shot sm3 computes of the whole
\* message.
C1_StreamingEquivalence ==
    phase = "finalized" => digest = sm3(absorbed)

\* C2 (as claimed): the blocks folded into the chaining state between init and
\* the end of final are exactly the padded message, and final folds one block
\* when at most 55 bytes are pending and two when 56 to 63 are.
C2_PaddedBlocks ==
    phase = "finalized" =>
        /\ Flatten(ctx.folded) = Padded(absorbed)
        /\ Len(ctx.folded) - pending.folded = (IF pending.num <= 55 THEN 1 ELSE 2)

\* C3: between operations, after init and updates that total n bytes, num is
\* n mod 64, nblocks is n div 64 and block[0 .. num) holds the last n mod 64
\* bytes passed.
C3_BufferAccounting ==
    phase = "ready" =>
        LET n == Len(absorbed)
        IN  /\ ctx.num = n % 64
            /\ ctx.num \in 0..63
            /\ ctx.nblocks = BigOf(n \div 64)
            /\ \A i \in 1..ctx.num : ctx.block[i] = absorbed[n - ctx.num + i]

\* C3's case: more than two blocks' worth absorbed, with bytes left pending.
C3_Witness ==
    /\ phase = "ready"
    /\ Len(absorbed) > 128
    /\ ctx.num > 0
    /\ ctx.nblocks = BigOf(2)

\* C5 (as claimed): once final has returned, the context holds no word of the
\* chaining state, no buffered byte and no count.
C5_ContextZeroed ==
    phase = "finalized" =>
        /\ \A i \in 1..8 : ctx.state[i] = <<0, 0>>
        /\ \A i \in 1..64 : ctx.block[i] = 0
        /\ ctx.num = 0
        /\ ctx.nblocks = BigOf(0)

\* The reference length field: totalBits = nblocks * 512 + p * 8 as four
\* 16-bit limbs, lowest first, then as 8 big-endian bytes.
TotalBits(nblocks, p) ==
    LET t0 == nblocks[1] * 512 + p * 8
        t1 == nblocks[2] * 512 + (t0 \div Half)
        t2 == nblocks[3] * 512 + (t1 \div Half)
    IN  <<t0 % Half, t1 % Half, t2 % Half, t2 \div Half>>

BigEndian64(t) ==
    <<t[4] \div 256, t[4] % 256, t[3] \div 256, t[3] % 256,
      t[2] \div 256, t[2] % 256, t[1] \div 256, t[1] % 256>>

\* C4 (as claimed): whatever the block count and the pending count, the 8
\* bytes sm3_final writes at block[56..63] are the 64-bit big-endian encoding
\* of nblocks * 512 + p * 8.  sm3_final leaves nblocks and num as it found
\* them.
C4_LengthEncoding ==
    phase = "finalized" =>
        SubSeq(ctx.block, 57, 64) = BigEndian64(TotalBits(ctx.nblocks, ctx.num))

\* The reference one-shot digest of m: the compression function folded from
\* the initial value over the 64-byte blocks of the padded message, as 32
\* bytes.
RECURSIVE FoldBlocks(_, _, _)
FoldBlocks(state, padded, offset) ==
    IF offset >= Len(padded) \/ Len(state) # 8 THEN state
    ELSE FoldBlocks(CompressWindow(state, padded, offset), padded, offset + 64)

\* Byte b (0..3, highest first) of a word.
WordByte(w, b) ==
    IF b = 0 THEN (w[1] % Half) \div 256 ELSE IF b = 1 THEN w[1] % 256
    ELSE IF b = 2 THEN w[2] \div 256 ELSE w[2] % 256

RefDigest(m) ==
    LET st == FoldBlocks(IV, Padded(m), 0)
    IN  [k \in 1..32 |-> WordByte(st[((k - 1) \div 4) + 1], (k - 1) % 4)] \o << >>

\* The key block K': key right-padded with zeros to 64 bytes, or the digest
\* of a key longer than 64 bytes right-padded with zeros.
RefKeyBlock(key) ==
    IF Len(key) <= 64 THEN key \o Zeros(64 - Len(key))
    ELSE RefDigest(key) \o Zeros(32)

RefMask(kb, pad) == [k \in 1..64 |-> Xor8(kb[k], pad)] \o << >>

RefMac(data, key) ==
    LET kb == RefKeyBlock(key)
    IN  RefDigest(RefMask(kb, 92) \o RefDigest(RefMask(kb, 54) \o data))

\* C6 (as claimed): for every data and every key, shorter than, as long as or
\* longer than a block, sm3_hmac leaves in mac[0..32) the value
\* digest((K' xor 0x5C) || digest((K' xor 0x36) || data)).
C6_MacConstruction ==
    hpc \in {"final", "freed"} =>
        /\ Len(mac) >= 32
        /\ SubSeq(mac, 1, 32) = RefMac(hdata, hkey)

\* A requested length (held doubled) that is a non-negative integer.
IsLength(k2) == k2 >= 0 /\ k2 % 2 = 0

\* C7: of two calls of sm3_kdf on the same secret with non-negative integer
\* lengths n <= n', the result for n is the first n bytes of the result
\* for n'.
C7_KdfPrefix ==
    (kpc = "returned" /\ kprev.valid /\ IsLength(klen) /\ IsLength(kprev.klen)) =>
        IF kprev.klen <= klen
        THEN /\ Len(kprev.key) = kprev.klen \div 2
             /\ kprev.key = SubSeq(kret, 1, kprev.klen \div 2)
        ELSE /\ Len(kret) = klen \div 2
             /\ kret = SubSeq(kprev.key, 1, klen \div 2)

\* C7's case: 33 bytes were asked for, then 65 of the same secret, so that
\* the shorter result ends inside the second digest of the longer one.
C7_Witness ==
    /\ kpc = "returned"
    /\ kprev.valid
    /\ kprev.klen = 66
    /\ klen = 130
    /\ Len(kret) = 65
    /\ Len(Z) >= 124

\* The reference key stream of n digests: digest(secret || BE32(1)) || ... ||
\* digest(secret || BE32(n)).
RECURSIVE RefStream(_, _)
RefStream(secret, n) ==
    IF n = 0 THEN << >>
    ELSE RefStream(secret, n - 1)
         \o RefDigest(secret \o <<0, 0, n \div 256, n % 256>>)

\* C8 (as claimed): for every secret and every non-negative integer length,
\* sm3_kdf returns exactly that many bytes, the first of
\* digest(secret || BE32(1)) || digest(secret || BE32(2)) || ...
C8_KdfConstruction ==
    (kpc = "returned" /\ IsLength(klen)) =>
        LET n == klen \div 2
        IN  /\ Len(kret) = n
            /\ kret = SubSeq(RefStream(Z, (n + 31) \div 32), 1, n)

\* C9 (as claimed): a call of sm3_kdf with a negative or a non-integral
\* length does not return a byte sequence.
C9_KdfRejectsBadLength ==
    kpc = "returned" => IsLength(klen)

Digits(str) == \A k \in 1..Len(str) : IsDigit(str[k])

\* The counters from a up to b, in order.
Range(a, b) == [k \in 1..(b - a + 1) |-> a + k - 1]

\* C10: for counter C, window W >= 0 and a token of digits as long as the
\* passcodes, the call compares the passcodes of C, C + 1, ... in order, none
\* below C and none above C + W, stops at the first whose passcode is the
\* token and returns {delta: i - C} for it; when none in C .. C + W is, it
\* has compared them all and returns no object.
C10_OneSidedWindow ==
    LET C == IntOr(options.counter, 0)
        W == IntOr(options.window, 0)
        hits == {c \in C..(C + W) :
                    hotpGenerate([options EXCEPT !.counter = c]) = options.token}
    IN  (/\ entry \in {"hotp.verifyDelta", "hotp.verify"}
         /\ vpc \in {"returned", "threw"}
         /\ Digits(options.token)
         /\ Len(options.token) = IntOr(options.digits, 6)) =>
            /\ vpc = "returned"
            /\ IF hits = {}
               THEN /\ vret.kind = "undefined"
                    /\ compared = Range(C, C + W)
               ELSE LET first == CHOOSE c \in hits : \A h \in hits : c <= h
                    IN  /\ vret.kind = "object"
                        /\ vret.delta = first - C
                        /\ compared = Range(C, first)

\* C10's case: the token is the passcode of two counters of the window, the
\* first of them above C, and the call returned the delta of the first.
C10_Witness ==
    /\ vpc = "returned"
    /\ vret.kind = "object"
    /\ vret.delta = 1
    /\ options.window = 2
    /\ hotpGenerate([options EXCEPT !.counter = options.counter + 2])
           = options.token

\* The counter of a call of totp.verifyDelta: the one given, or the number of
\* whole steps (30 seconds unless given) from the epoch (0 unless given) to
\* the time.
CounterOf(o) ==
    IF o.counter # Undefined THEN o.counter
    ELSE (o.time - (IF o.epoch = Undefined THEN 0 ELSE o.epoch))
             \div (IF o.step = Undefined THEN 30 ELSE o.step)

\* The counters of a..b whose passcode, under the caller's options o, is the
\* token.
Hits(o, a, b) ==
    {c \in a..b : hotpGenerate([o EXCEPT !.counter = c]) = o.token}

\* C11: for counter C, given or derived from the time, window W >= 0 and a
\* token of digits as long as the passcodes, totp.verifyDelta compares the
\* passcodes of C - W, C - W + 1, ... in order, none below C - W and none
\* above C + W, and returns {delta: p - C} for the first counter p whose
\* passcode is the token (no object when none is); C and W are those the
\* caller's options object still holds when the call has returned.
C11_TwoSidedWindow ==
    LET C == CounterOf(options)
        W == IntOr(options.window, 0)
        hits == Hits(options, C - W, C + W)
    IN  (/\ entry \in {"totp.verifyDelta", "totp.verify"}
         /\ tret # NoReturn
         /\ Digits(options.token)
         /\ Len(options.token) = IntOr(options.digits, 6)) =>
            IF hits = {}
            THEN /\ tret.kind = "undefined"
                 /\ compared = Range(C - W, C + W)
            ELSE LET p == CHOOSE c \in hits : \A h \in hits : c <= h
                 IN  /\ tret.kind = "object"
                     /\ tret.delta = p - C
                     /\ compared = Range(C - W, p)

\* C11's case: the counter is derived from the time, the token is the
\* passcode of a counter below it, inside the window, and the delta returned
\* is negative.
C11_Witness ==
    /\ entry = "totp.verifyDelta"
    /\ options.counter = Undefined
    /\ options.window = 2
    /\ tret.kind = "object"
    /\ tret.delta = 0 - 1
    /\ Len(compared) = 2

\* C12 (as claimed): hotp.verify and totp.verify return true when the token
\* is the passcode of a counter of the window and false otherwise, whatever
\* the token.
C12_VerifyTotal ==
    LET C == CounterOf(options)
        W == IntOr(options.window, 0)
    IN  (entry \in {"hotp.verify", "totp.verify"} /\ bret # NoReturn) =>
            /\ bret.kind = "boolean"
            /\ bret.value = (Hits(options, IF entry = "hotp.verify" THEN C
                                           ELSE C - W, C + W) # {})

\* The state after the single-block compressions of the windows
\* data[offset + 64 * i .. offset + 64 * i + 64) for i = done .. N - 1, in
\* order, from state s.
RECURSIVE Successive(_, _, _, _, _)
Successive(s, data, offset, done, N) ==
    IF done = N \/ Len(s) # 8 THEN s
    ELSE Successive(
             sm3_compress([state |-> s, folded |-> << >>],
                          SubSeq(data, offset + 64 * done + 1,
                                 offset + 64 * done + 64)).state,
             data, offset, done + 1, N)

\* C13 (as claimed): sm3_compress_blocks(s, data, offset, N) leaves the state
\* that N successive single-block compressions of the windows at offset,
\* offset + 64, ... leave, and reads each of these windows once, in order.
C13_MultiBlock ==
    cout # NoChain =>
        /\ cout.state = Successive(cin.state, cin.data, cin.offset, 0, cin.blocks)
        /\ cout.folded = [k \in 1..cin.blocks |->
                             SubSeq(cin.data, cin.offset + 64 * (k - 1) + 1,
                                    cin.offset + 64 * k)]

\* The inner digest of the call, as the engine computes it: the digest of the
\* inner-pad-masked key block followed by the data.  hctx.key holds the
\* outer-pad form, which one more XOR with 0x36 xor 0x5C turns back.
InnerDigest ==
    sm3_final(sm3_update(sm3_update(sm3_init(sm3_ctx_new),
                                    XorKey(hctx.key, 106)), hdata),
              NewArray(32)).digest

\* C14 (as claimed): whatever the mac array the caller passed, the engine
\* re-initialized in sm3_hmac_final has absorbed 96 bytes when it is
\* finalized, one whole block and 32 pending bytes: the outer-pad-masked key
\* block, then the 32 bytes of the inner digest, padded as a message of 96
\* bytes.
C14_OuterInput ==
    hpc = "final" =>
        LET e == hctx.sm3_ctx
        IN  /\ e.nblocks = BigOf(1)
            /\ e.num = 32
            /\ Len(e.folded) = 2
            /\ e.folded[1] = hctx.key
            /\ e.folded[2] = InnerDigest \o <<128>> \o Zeros(23) \o BitLength8(96)

\* C15 (as claimed): after sm3_hmac_init and after sm3_hmac_update the key
\* block is K' xor 0x36, byte by byte; after sm3_hmac_final it is K' xor 0x5C,
\* and one more XOR with 0x36 xor 0x5C gives K' xor 0x36 again; it is never
\* K' itself.  K' is the key right-padded with zeros, or the digest of a key
\* longer than a block right-padded with zeros.
C15_MaskingToggle ==
    LET kb == RefKeyBlock(hkey)
    IN  /\ hpc \in {"keyed", "updated"} =>
               /\ hctx.key = RefMask(kb, 54)
               /\ hctx.key # kb
        /\ hpc = "final" =>
               /\ hctx.key = RefMask(kb, 92)
               /\ hctx.key # kb
               /\ XorKey(hctx.key, 106) = RefMask(kb, 54)

\* C16 (as claimed): in every state between operations, after init, after the
\* blocks an update folded and after final, each of the eight words of the
\* chaining state is a number in 0 .. 2^32 - 1, and every byte final wrote to
\* the digest is in 0 .. 255.
C16_WordRange ==
    /\ \A i \in 1..8 :
           /\ ctx.state[i][1] \in 0..(Half - 1)
           /\ ctx.state[i][2] \in 0..(Half - 1)
    /\ phase = "finalized" => \A k \in 1..SM3_DIGEST_LENGTH : digest[k] \in 0..255

\* C17: in the one-shot sm3, in sm3_hmac (the long-key branch of its init
\* included) and in every iteration of sm3_kdf, each sm3_update and each
\* sm3_final is called on an engine that is Ready: no engine was ever updated
\* or finalized between a final and the next init.  Between the steps the
\* engine of a MAC context is Ready after init and after update and Finalized
\* after final, and the engines of sm3 and of sm3_kdf are Finalized when the
\* call or an iteration has ended.
C17_ThreeCallProtocol ==
    /\ ~ctx.misused
    /\ ~hctx.sm3_ctx.misused
    /\ ~kloc.ctx.misused
    /\ phase \in {"entered", "absorbed"} => ctx.life = "Ready"
    /\ phase = "returned" => ctx.life = "Finalized"
    /\ hpc \in {"keyed", "updated"} => hctx.sm3_ctx.life = "Ready"
    /\ hpc = "final" => hctx.sm3_ctx.life = "Finalized"
    /\ (kpc \in {"loop", "returned"} /\ kloc.i > 0) => kloc.ctx.life = "Finalized"

\* sm3_hmac_final has returned in a call whose key is longer than a block: the
\* engine has been through init, update, final in sm3_hmac_init, then init,
\* updates, final, init, updates, final.
C17_Witness ==
    /\ hpc = "final"
    /\ Len(hkey) > SM3_BLOCK_SIZE
    /\ hctx.sm3_ctx.life = "Finalized"
    /\ ~hctx.sm3_ctx.misused

\* C18: sm3_memcpy, sm3_memset and the loop of sm3_compress_blocks are never
\* entered with a negative count, and every call of sm3_update, sm3_final,
\* sm3_hmac_init, sm3_hmac_update and sm3_hmac_final returns, as does every
\* call of sm3_kdf with a length that is a non-negative integer.
C18_Termination ==
    /\ [](\A k \in DOMAIN call.loops : call.loops[k].len >= 0)
    /\ (Running ~> ~Running)
    /\ ((kpc = "loop") ~> (kpc = "returned"))

\* sm3_hmac_final is in its last helper loop, the sm3_memset of the second
\* sm3_final, in a call whose key was longer than a block.
C18_Witness ==
    /\ call.name = "sm3_hmac_final"
    /\ Len(hkey) > SM3_BLOCK_SIZE
    /\ Len(call.loops) = 2
    /\ call.loops[1].fn = "sm3_memset"
    /\ call.loops[1].len = 1

====
